---- MODULE Spec2Model ----
(***************************************************************************)
(* The CXXRTL testbench for viterbi_top (viterbi_cxxrtl_tb.cpp): the       *)
(* character decoder viterbi_getc_value, the half-tick                     *)
(* viterbi_clock_and_output and the driver loop of main.  The design under *)
(* test is opaque: each step() may leave any value on its output ports.    *)
(* The ports are cxxrtl value<Bits> objects; their widths and what set()   *)
(* does with a value wider than the port are fixed outside this file and   *)
(* are not modelled: x0 and x1 hold the value the testbench hands to set().*)
(***************************************************************************)
EXTENDS Integers, Sequences, FiniteSets, TLC

\* ---------------------------------------------------------------- bounds
\* longest run of digits, letters and skippable bytes in front of the
\* terminator of the input stream
MaxLen == 3

\* ------------------------------------------------------ program constants
\* for (int i=0; i < 256; i++)
Budget == 256
\* what getchar() returns on an exhausted stream
EOF == -1

\* ------------------------------------------------------------ input bytes
\* '9', 'a', ' ' : the bytes the prefix of a stream is made of
PrefixBytes == {57, 97, 32}
\* '!' followed by a digit that is never read; or nothing (the stream ends)
Tails == {<< >>, <<33, 57>>}

RECURSIVE SeqsUpTo(_, _)
SeqsUpTo(S, n) ==
    IF n = 0 THEN {<< >>}
    ELSE LET shorter == SeqsUpTo(S, n - 1)
         IN  shorter \cup {Append(s, b) : s \in {t \in shorter : Len(t) = n - 1}, b \in S}

\* longer inputs: "12", "1 2abc!" (the two scenarios of the specification),
\* "1 2ab:" (two complete pairs, then ':') and "0z{"
Scenarios == { <<49, 50>>,
               <<49, 32, 50, 97, 98, 99, 33>>,
               <<49, 32, 50, 97, 98, 58>>,
               <<48, 122, 123>> }

Streams == {p \o t : p \in SeqsUpTo(PrefixBytes, MaxLen), t \in Tails} \cup Scenarios

VARIABLES
    stream,       \* the bytes of stdin
    pos,          \* how many of them getchar() has returned
    c,            \* viterbi_getc_value: the last result of getchar()
    input,        \* main: status of the last fill, 0 or -1
    i,            \* main: the loop counter
    j,            \* main: the logical-time index of the next sample
    argc,         \* 1 without a command-line argument, 2 with a trace path
    capture_vcd,  \* main: capture flag
    registered,   \* w.add(items) has been called
    nsamples,     \* number of calls of w.sample
    sampled,      \* the index handed to the last call of w.sample (<< >>: none yet)
    x0, x1,       \* top.p_x0, top.p_x1: the value last handed to set()
    clk, tb_clk,  \* top.p_clk, top.p_sync__tb__clk
    data, valid,  \* top.p_data, top.p_data__valid
    nsteps,       \* number of calls of top.step()
    ops,          \* what the last viterbi_clock_and_output did, in order
    out,          \* the lines the last half-tick wrote to std::cout
    notice,       \* "Writing <path>" has been printed
    file,         \* w.buffer has been written to the trace file
    nflush,       \* number of times w.buffer has been written out
    pc,           \* position of main
    halfticks,    \* number of calls of viterbi_clock_and_output that returned
    ticks,        \* number of loop iterations whose two half-ticks are done
    iters,        \* number of loop iterations entered
    log,          \* the calls val->set(value): port, value, ticks at that moment
    failPort,     \* the port whose fill returned -1 ("none" before that)
    failTicks     \* ticks at the moment that fill returned -1

vars == <<stream, pos, c, input, i, j, argc, iters, capture_vcd, registered, nsamples,
          sampled, x0, x1, clk, tb_clk, data, valid, nsteps, ops, out, notice,
          file, nflush, pc, halfticks, ticks, log, failPort, failTicks>>

ioVars   == <<stream, pos, c>>
dutIn    == <<x0, x1>>
dutClk   == <<clk, tb_clk>>
dutOut   == <<data, valid, nsteps, ops, out, halfticks>>
vcdVars  == <<j, registered, nsamples, sampled>>
endVars  == <<notice, file, nflush>>
fillVars == <<log, failPort, failTicks>>

\* values the opaque design may leave on p_data and p_data__valid
DataValues  == {0, 1}
ValidValues == {0, 1}

\* ---------------------------------------------------- viterbi_getc_value
\* c = getchar()
getchar == IF pos < Len(stream) THEN stream[pos + 1] ELSE EOF

\* if (c >= 48 && c < 58)
IsDigit(ch) == ch >= 48 /\ ch < 58
\* else if (c >= 97 && c < 123)
IsLetter(ch) == ch >= 97 /\ ch < 123
IsSkipped_Strict(ch) == ch < 32

\* else if (c <= 32)
IsSkipped(ch) == ch <= 32
DecodedValue_LetterBase(ch) == IF IsDigit(ch) THEN ch - 48 ELSE ch - 96

\* value = c - 48;  value = c - 97;
DecodedValue(ch) == IF IsDigit(ch) THEN ch - 48 ELSE ch - 97

\* what one pass of the while (1) body does with the byte ch
Returns0(ch)   == IsDigit(ch) \/ IsLetter(ch)
Continues(ch)  == ~Returns0(ch) /\ IsSkipped(ch)
ReturnsM1(ch)  == ~Returns0(ch) /\ ~IsSkipped(ch)

\* getchar() consumes a byte unless the stream is exhausted
Consume == pos' = IF pos < Len(stream) THEN pos + 1 ELSE pos

\* ------------------------------------------------------------------ Init
Init ==
    /\ stream \in Streams
    /\ pos = 0
    /\ c = 0
    /\ input = 0
    /\ i = 0
    /\ j = 0
    /\ argc \in {1, 2}
    /\ capture_vcd = 0
    /\ registered = FALSE
    /\ nsamples = 0
    /\ sampled = << >>
    /\ x0 = 0 /\ x1 = 0
    /\ clk = 0 /\ tb_clk = 0
    /\ data = 0 /\ valid = 0
    /\ nsteps = 0
    /\ ops = << >>
    /\ out = << >>
    /\ notice = FALSE
    /\ file = FALSE
    /\ nflush = 0
    /\ pc = "args"
    /\ halfticks = 0
    /\ ticks = 0
    /\ iters = 0
    /\ log = << >>
    /\ failPort = "none"
    /\ failTicks = 0

\* ------------------------------------------------------------------ main
HasPathArg_OffByOne == argc > 0

\* if (argc > 1)
HasPathArg == argc > 1

\* if (argc > 1) { capture_vcd = 1; w.add(items); }
Args ==
    /\ pc = "args"
    /\ IF HasPathArg
       THEN capture_vcd' = 1 /\ registered' = TRUE
       ELSE UNCHANGED <<capture_vcd, registered>>
    /\ pc' = "for"
    /\ UNCHANGED <<ioVars, input, i, j, argc, iters, nsamples, sampled, dutIn, dutClk,
                   dutOut, endVars, ticks, fillVars>>

LoopCond_OffByOne == i <= Budget

\* i < 256
LoopCond == i < Budget

NeedsFill_Always == TRUE

\* if (input == 0)
NeedsFill == input = 0

\* i < 256 holds: enter the body; if (input == 0) decides whether to fill
ForEnter ==
    /\ pc = "for"
    /\ LoopCond
    /\ pc' = IF NeedsFill THEN "x0" ELSE "sample0"
    /\ iters' = iters + 1
    /\ UNCHANGED <<ioVars, input, i, argc, capture_vcd, dutIn, dutClk, dutOut,
                   vcdVars, endVars, ticks, fillVars>>

\* i < 256 fails: leave the loop
ForExit ==
    /\ pc = "for"
    /\ ~LoopCond
    /\ pc' = "flush"
    /\ UNCHANGED <<ioVars, input, i, argc, iters, capture_vcd, dutIn, dutClk, dutOut,
                   vcdVars, endVars, ticks, fillVars>>

ResetCounter_Missing == i' = i

\* i = 0;  /* Keep reading input */
ResetCounter == i' = 0

\* one pass of the while (1) of viterbi_getc_value(&top.p_x0)
GetcX0 ==
    /\ pc = "x0"
    /\ c' = getchar
    /\ Consume
    /\ \/ /\ Returns0(c')
          /\ x0' = DecodedValue(c')
          /\ log' = Append(log, [port |-> "x0", value |-> DecodedValue(c'), tick |-> ticks])
          /\ input' = 0
          /\ pc' = "x1"
          /\ UNCHANGED <<failPort, failTicks>>
       \/ /\ Continues(c')
          /\ UNCHANGED <<x0, log, input, pc, failPort, failTicks>>
       \/ /\ ReturnsM1(c')
          /\ input' = 0 - 1
          /\ failPort' = "x0"
          /\ failTicks' = ticks
          /\ pc' = "sample0"
          /\ UNCHANGED <<x0, log>>
    /\ UNCHANGED <<stream, i, argc, iters, capture_vcd, x1, dutClk, dutOut, vcdVars, endVars, ticks>>

GetcX1_ResetOnSuccess ==
    /\ pc = "x1"
    /\ c' = getchar
    /\ Consume
    /\ \/ /\ Returns0(c')
          /\ x1' = DecodedValue(c')
          /\ log' = Append(log, [port |-> "x1", value |-> DecodedValue(c'), tick |-> ticks])
          /\ input' = 0
          /\ ResetCounter
          /\ pc' = "sample0"
          /\ UNCHANGED <<failPort, failTicks>>
       \/ /\ Continues(c')
          /\ UNCHANGED <<x1, log, input, i, pc, failPort, failTicks>>
       \/ /\ ReturnsM1(c')
          /\ input' = 0 - 1
          /\ i' = i
          /\ failPort' = "x1"
          /\ failTicks' = ticks
          /\ pc' = "sample0"
          /\ UNCHANGED <<x1, log>>
    /\ UNCHANGED <<stream, argc, iters, capture_vcd, x0, dutClk, dutOut, vcdVars, endVars, ticks>>

\* one pass of the while (1) of viterbi_getc_value(&top.p_x1); i = 0 on return
GetcX1 ==
    /\ pc = "x1"
    /\ c' = getchar
    /\ Consume
    /\ \/ /\ Returns0(c')
          /\ x1' = DecodedValue(c')
          /\ log' = Append(log, [port |-> "x1", value |-> DecodedValue(c'), tick |-> ticks])
          /\ input' = 0
          /\ ResetCounter
          /\ pc' = "sample0"
          /\ UNCHANGED <<failPort, failTicks>>
       \/ /\ Continues(c')
          /\ UNCHANGED <<x1, log, input, i, pc, failPort, failTicks>>
       \/ /\ ReturnsM1(c')
          /\ input' = 0 - 1
          /\ ResetCounter
          /\ failPort' = "x1"
          /\ failTicks' = ticks
          /\ pc' = "sample0"
          /\ UNCHANGED <<x1, log>>
    /\ UNCHANGED <<stream, argc, iters, capture_vcd, x0, dutClk, dutOut, vcdVars, endVars, ticks>>

SampleNow_NoIncrement ==
    IF capture_vcd = 1
    THEN /\ nsamples' = nsamples + 1
         /\ sampled' = <<j>>
         /\ j' = j
    ELSE UNCHANGED <<nsamples, sampled, j>>

\* if (capture_vcd == 1) { w.sample(j); j += 1; }
SampleNow ==
    IF capture_vcd = 1
    THEN /\ nsamples' = nsamples + 1
         /\ sampled' = <<j>>
         /\ j' = j + 1
    ELSE UNCHANGED <<nsamples, sampled, j>>

\* the sample in front of viterbi_clock_and_output(&top, value<1>{0u})
Sample0 ==
    /\ pc = "sample0"
    /\ SampleNow
    /\ pc' = "clock0"
    /\ UNCHANGED <<ioVars, input, i, argc, iters, capture_vcd, registered, dutIn, dutClk,
                   dutOut, endVars, ticks, fillVars>>

Sample1_Twice ==
    /\ pc = "sample1"
    /\ IF capture_vcd = 1
       THEN /\ nsamples' = nsamples + 2
            /\ sampled' = <<j + 1>>
            /\ j' = j + 2
       ELSE UNCHANGED <<nsamples, sampled, j>>
    /\ pc' = "clock1"
    /\ UNCHANGED <<ioVars, input, i, argc, iters, capture_vcd, registered, dutIn, dutClk,
                   dutOut, endVars, ticks, fillVars>>

\* the sample in front of viterbi_clock_and_output(&top, value<1>{1u})
Sample1 ==
    /\ pc = "sample1"
    /\ SampleNow
    /\ pc' = "clock1"
    /\ UNCHANGED <<ioVars, input, i, argc, iters, capture_vcd, registered, dutIn, dutClk,
                   dutOut, endVars, ticks, fillVars>>

OutputLine_Ungated(out_data, out_data_valid) == <<out_data>>

\* if (out_data_valid == 1) std::cout << out_data << std::endl;
OutputLine(out_data, out_data_valid) ==
    IF out_data_valid = 1 THEN <<out_data>> ELSE << >>

\* The statements of viterbi_clock_and_output act on the clock lines of the
\* design, h = [clk, tb, n, ops]: the two lines, the number of step() calls,
\* and the statements executed so far, each with the levels it leaves or sees.
Did(h, what) == Append(h.ops, [op |-> what, clk |-> h.clk, tb |-> h.tb])

\* top->p_clk = sync_clk;
AssignClk(h, level) ==
    LET g == [h EXCEPT !.clk = level] IN [g EXCEPT !.ops = Did(g, "clk")]

\* top->p_sync__tb__clk = value<1>{level};
AssignTbClk(h, level) ==
    LET g == [h EXCEPT !.tb = level] IN [g EXCEPT !.ops = Did(g, "tb_clk")]

\* top->step();
Step(h) == [h EXCEPT !.n = @ + 1, !.ops = Did(h, "step")]

\* out_data = top->p_data.get(); out_data_valid = top->p_data__valid.get();
ReadOutputs(h) == [h EXCEPT !.ops = Did(h, "get")]

HalfTick_StepAfterRaise(h, sync_clk) ==
    ReadOutputs(Step(AssignTbClk(Step(AssignTbClk(Step(AssignClk(h, sync_clk)), 0)), 1)))

HalfTick_OneStep(h, sync_clk) ==
    ReadOutputs(AssignTbClk(Step(AssignTbClk(AssignClk(h, sync_clk), 0)), 1))

\* lines 13-21, in the order of the source
HalfTick(h, sync_clk) ==
    ReadOutputs(AssignTbClk(Step(AssignTbClk(Step(AssignClk(h, sync_clk)), 0)), 1))

\* viterbi_clock_and_output(&top, sync_clk): p_clk = sync_clk; step();
\* p_sync__tb__clk = 0; step(); p_sync__tb__clk = 1; read the outputs; print
ClockAndOutput(sync_clk) ==
    /\ LET h == HalfTick([clk |-> clk, tb |-> tb_clk, n |-> nsteps, ops |-> << >>],
                         sync_clk)
       IN  /\ clk' = h.clk
           /\ tb_clk' = h.tb
           /\ nsteps' = h.n
           /\ ops' = h.ops
    /\ \E d \in DataValues, v \in ValidValues :
          /\ data' = d
          /\ valid' = v
          /\ out' = OutputLine(d, v)
    /\ halfticks' = halfticks + 1

Clock0 ==
    /\ pc = "clock0"
    /\ ClockAndOutput(0)
    /\ pc' = "sample1"
    /\ UNCHANGED <<ioVars, input, i, argc, iters, capture_vcd, dutIn, vcdVars, endVars,
                   ticks, fillVars>>

Clock1_Low ==
    /\ pc = "clock1"
    /\ ClockAndOutput(0)
    /\ ticks' = ticks + 1
    /\ pc' = "incr"
    /\ UNCHANGED <<ioVars, input, i, argc, iters, capture_vcd, dutIn, vcdVars, endVars, fillVars>>

\* viterbi_clock_and_output(&top, value<1>{1u}); the iteration's tick is done
Clock1 ==
    /\ pc = "clock1"
    /\ ClockAndOutput(1)
    /\ ticks' = ticks + 1
    /\ pc' = "incr"
    /\ UNCHANGED <<ioVars, input, i, argc, iters, capture_vcd, dutIn, vcdVars, endVars, fillVars>>

ForIncr_SkipOne ==
    /\ pc = "incr"
    /\ i' = i + 2
    /\ pc' = "for"
    /\ UNCHANGED <<ioVars, input, argc, iters, capture_vcd, dutIn, dutClk, dutOut, vcdVars,
                   endVars, ticks, fillVars>>

\* i++
ForIncr ==
    /\ pc = "incr"
    /\ i' = i + 1
    /\ pc' = "for"
    /\ UNCHANGED <<ioVars, input, argc, iters, capture_vcd, dutIn, dutClk, dutOut, vcdVars,
                   endVars, ticks, fillVars>>

Flush_NoticeLate ==
    /\ pc = "flush"
    /\ pc' = IF capture_vcd = 1 THEN "write" ELSE "done"
    /\ UNCHANGED <<ioVars, input, i, argc, iters, capture_vcd, dutIn, dutClk, dutOut, vcdVars,
                   endVars, ticks, fillVars>>

\* if (capture_vcd == 1) { std::cout << "Writing " << argv[1] << std::endl; ...
\* else return 0;
Flush ==
    /\ pc = "flush"
    /\ IF capture_vcd = 1
       THEN notice' = TRUE /\ pc' = "write"
       ELSE notice' = notice /\ pc' = "done"
    /\ UNCHANGED <<ioVars, input, i, argc, iters, capture_vcd, dutIn, dutClk, dutOut, vcdVars,
                   file, nflush, ticks, fillVars>>

\* std::ofstream outfile (argv[1]); outfile << w.buffer; } return 0;
WriteTrace ==
    /\ pc = "write"
    /\ file' = TRUE
    /\ nflush' = nflush + 1
    /\ pc' = "done"
    /\ UNCHANGED <<ioVars, input, i, argc, iters, capture_vcd, dutIn, dutClk, dutOut, vcdVars,
                   notice, ticks, fillVars>>

Next ==
    \/ Args
    \/ ForEnter
    \/ ForExit
    \/ GetcX0
    \/ GetcX1
    \/ Sample0
    \/ Clock0
    \/ Sample1
    \/ Clock1
    \/ ForIncr
    \/ Flush
    \/ WriteTrace

Spec == Init /\ [][Next]_vars

\* ------------------------------------------------------- input, as read
\* the digits and letters of a byte sequence, in order
MeaningfulByte(b) == b \in (48..57) \cup (97..122)
SkippableByte(b)  == b \in 0..32
MalformedByte(b)  == b \in 33..255 /\ ~MeaningfulByte(b)
Meaningful(s) == SelectSeq(s, MeaningfulByte)

\* index of the first byte of s that is neither decoded nor skipped
\* (Len(s) + 1 when there is none: the stream ends instead)
StopIndex(s) ==
    IF \E k \in 1..Len(s) : MalformedByte(s[k])
    THEN CHOOSE k \in 1..Len(s) :
             MalformedByte(s[k]) /\ \A m \in 1..(k - 1) : ~MalformedByte(s[m])
    ELSE Len(s) + 1

\* the bytes in front of that byte, and the symbols among them
Before(s)  == SubSeq(s, 1, StopIndex(s) - 1)
Symbols(s) == Meaningful(Before(s))

\* the same, tabulated once for the streams of the model
SymbolsOf   == [s \in Streams |-> Symbols(s)]
StopIndexOf == [s \in Streams |-> StopIndex(s)]

\* n >= 1 complete symbol pairs, then end of input
NSymbols == Len(SymbolsOf[stream])
CompletePairs == NSymbols >= 2 /\ NSymbols % 2 = 0
NPairs == NSymbols \div 2

\* ---------------------------------------------------------------- claims

\* C1: at the end of every half-tick a line has been written to the result
\* stream if and only if the validity flag read at that moment is 1, and the
\* line is the data output read at that moment.
C1_OutputGate ==
    halfticks > 0 =>
        /\ (out # << >>) <=> (valid = 1)
        /\ valid = 1 => out = <<data>>
C1_Witness == halfticks > 0 /\ valid = 1 /\ data = 1 /\ out = <<1>>

\* C2: whatever the (finite) input stream, the run never loops forever: until
\* the end of main is reached some step changes the state, also once getchar()
\* has returned EOF.
C2_ExhaustionTerminates == pc = "done" \/ ENABLED <<Next>>_vars

\* C3, as stated: on n >= 1 complete pairs followed by end of input, exactly n
\* full ticks are executed: none is executed once a fill has found end of
\* input.
C3_ExactlyNTicks ==
    (CompletePairs /\ (input # 0 \/ pc = "done")) => ticks = NPairs

\* C3, amended: on n >= 1 complete pairs followed by end of input, n full ticks
\* have been executed when the refill finds the end of the input; on a
\* malformed byte the fill returns -1 and the loop runs on to n + 255 full
\* ticks (4 DUT advances each) before it exits; on an exhausted stream the
\* fill does not return and the count stays at n.
C3_TicksAfterPairs ==
    CompletePairs =>
        /\ failPort # "none" => failPort = "x0" /\ failTicks = NPairs
        /\ c = EOF => ticks = NPairs /\ pc = "x0"
        /\ pc = "done" => /\ ticks = NPairs + Budget - 1
                          /\ nsteps = 4 * ticks
C3_Witness ==
    /\ pc = "done"
    /\ CompletePairs /\ NPairs = 2 /\ failTicks = 2
    /\ ticks = Budget + 1

\* C4, as stated: when the X0 fill succeeds and the X1 fill that follows
\* returns -1, no half-tick is executed after that X1 fill.
C4_HalfPairNotClocked == failPort = "x1" => halfticks = 2 * failTicks

\* C4, amended: a half-filled pair is clocked through.  When the X0 fill
\* succeeds and the X1 fill that follows returns -1, the counter is reset and
\* the full tick of that iteration and 255 more are executed, with X0 holding
\* the value just written and X1 the value of the pair before (0 if none).
C4_HalfPairClocked ==
    failPort = "x1" =>
        /\ Len(log) % 2 = 1
        /\ log[Len(log)].port = "x0" /\ log[Len(log)].tick = failTicks
        /\ x0 = log[Len(log)].value
        /\ x1 = IF Len(log) > 1 THEN log[Len(log) - 1].value ELSE 0
        /\ pc \in {"for", "incr", "flush", "write", "done"} => ticks > failTicks
        /\ pc = "done" => ticks = failTicks + Budget
C4_Witness ==
    /\ failPort = "x1" /\ pc = "done"
    /\ Len(log) = 5 /\ x0 = 2 /\ x1 = 1
    /\ halfticks = 2 * (failTicks + Budget)

\* C5, as stated: with capture enabled, at the end of the run the number of
\* sample calls is 4 times the number of full ticks.
C5_FourSamplesPerTick ==
    (pc = "done" /\ capture_vcd = 1) => nsamples = 4 * ticks

\* C5, amended: with capture enabled, at the end of the run (and at every
\* loop head) the number of sample calls is 2 times the number of full ticks:
\* one sample per half-tick, taken before that half-tick.
C5_TwoSamplesPerTick ==
    (capture_vcd = 1 /\ pc \in {"for", "flush", "write", "done"}) =>
        /\ nsamples = 2 * ticks
        /\ nsamples = halfticks
        /\ j = nsamples
C5_Witness == pc = "done" /\ capture_vcd = 1 /\ ticks > Budget /\ nsamples = 2 * ticks

\* C6: without a command-line argument nothing is registered with the
\* recorder, sample is never called, the notice is never printed and no trace
\* file is written.
C6_NoCaptureNoTrace ==
    argc = 1 =>
        /\ capture_vcd = 0
        /\ ~registered
        /\ nsamples = 0 /\ j = 0
        /\ ~notice
        /\ ~file
C6_Witness == argc = 1 /\ pc = "done" /\ halfticks >= 2 * Budget /\ failPort = "x1"

\* C7: the k-th digit or letter in front of the end of input (k = 0, 1, ...)
\* is assigned to X0 when k is even and to X1 when k is odd, the value being
\* code - '0' for a digit and code - 'a' for a letter; the two assignments of
\* pair m are made, X0 first, after m full ticks, in front of that pair's tick.
C7_Alternation ==
    /\ Len(log) <= NSymbols
    /\ \A k \in 1..Len(log) :
          LET ch == SymbolsOf[stream][k]
          IN  /\ log[k].port = IF (k - 1) % 2 = 0 THEN "x0" ELSE "x1"
              /\ log[k].value = IF ch \in 48..57 THEN ch - 48 ELSE ch - 97
              /\ log[k].tick = (k - 1) \div 2
    /\ (pos >= StopIndexOf[stream] \/ c = EOF) => Len(log) = NSymbols
    /\ \A k \in 1..Len(log) :
          (k + 2 > Len(log)) => (IF log[k].port = "x0" THEN x0 ELSE x1) = log[k].value
C7_Witness ==
    /\ Len(log) = 2
    /\ log[1] = [port |-> "x0", value |-> 0, tick |-> 0]
    /\ log[2] = [port |-> "x1", value |-> 25, tick |-> 0]
    /\ x0 = 0 /\ x1 = 25
    /\ ticks > 0

\* C8: a byte with code 0..32 is consumed without any effect but on the read
\* position: the ports, the assignments made so far, the fill status, the
\* counters and the position of main are what they were, so inserting or
\* removing such bytes changes neither the values assigned nor their ticks.
SkipStep == pc \in {"x0", "x1"} /\ pos < Len(stream) /\ SkippableByte(stream[pos + 1])
C8_SkipInvariance ==
    [][SkipStep =>
          /\ pos' = pos + 1
          /\ UNCHANGED <<stream, input, i, j, argc, iters, capture_vcd, registered, nsamples,
                         sampled, x0, x1, clk, tb_clk, data, valid, nsteps, ops, out,
                         notice, file, nflush, pc, halfticks, ticks, log, failPort,
                         failTicks>>]_vars
C8_Witness ==
    /\ stream = <<57, 32, 97, 33, 57>>
    /\ Len(log) = 2 /\ log[1].value = 9 /\ log[2].value = 0 /\ log[2].tick = 0
    /\ failPort = "x0" /\ failTicks = 1

\* C9: a malformed byte and the end of the stream are the same stop signal:
\* once either has been read, the fill has returned -1 and main has left the
\* decoder.
C9_SameStopSignal ==
    (c = EOF \/ MalformedByte(c)) => (input = 0 - 1 /\ pc \notin {"x0", "x1"})

\* C11: with capture enabled the trace buffer is written out exactly once,
\* after the loop has exited and after the notice has been printed; once the
\* notice is printed no half-tick runs, no line is written to the result
\* stream, no sample is taken and the design is not advanced.
C11_State ==
    /\ nflush <= 1
    /\ nflush = 1 => (pc = "done" /\ notice /\ file)
    /\ (pc = "done" /\ argc = 2) => nflush = 1
    /\ pc = "write" => (notice /\ nflush = 0 /\ ~file)
    /\ notice => (pc \in {"write", "done"} /\ ~LoopCond /\ capture_vcd = 1)
C11_Step ==
    (notice \/ nflush > 0) =>
        UNCHANGED <<nsamples, sampled, j, nsteps, halfticks, ticks, out, ops>>
C11_FlushOrdering == []C11_State /\ [][C11_Step]_vars
C11_Witness ==
    /\ pc = "done" /\ nflush = 1 /\ notice /\ file
    /\ nsamples >= 2 * Budget /\ nsteps = 2 * nsamples

\* C12: once a fill has returned -1 no byte is read for the rest of the run:
\* main is never in a fill again, the read position stays on the malformed
\* byte, and no port is assigned.
C12_State ==
    failPort # "none" =>
        /\ input = 0 - 1
        /\ pc \notin {"x0", "x1"}
        /\ pos = StopIndexOf[stream]
        /\ c = stream[pos]
C12_Step ==
    failPort # "none" => UNCHANGED <<pos, c, log, x0, x1, input, failPort, failTicks>>
C12_ReadingAbandoned == []C12_State /\ [][C12_Step]_vars
C12_Witness ==
    /\ failPort = "x0" /\ pc = "done"
    /\ pos < Len(stream)
    /\ ticks = failTicks + Budget - 1

\* C13, as stated: an iteration in which the X0 fill succeeds and the X1 fill
\* returns -1 does not reset the counter: in an iteration after the first the
\* counter, at least 1 when the iteration began, is still not 0 after the fill.
C13_ResetOnlyOnFullPair ==
    (failPort = "x1" /\ failTicks > 0 /\ pc = "sample0") => i # 0

\* C13, amended: the counter is reset to 0 in every iteration in which the X0
\* fill succeeded, when the X1 fill returns, whether with 0 or with -1; it is
\* reset nowhere else, so an iteration whose X0 fill returns -1 leaves it.
C13_Step ==
    /\ (pc = "x1" /\ pc' # "x1") => i' = 0
    /\ pc = "x0" => i' = i
    /\ (i' = 0 /\ i # 0) => (pc = "x1" /\ pc' = "sample0")
C13_ResetAfterX0Success == [][C13_Step]_vars
C13_Witness ==
    /\ failPort = "x1" /\ failTicks = 2 /\ pc = "sample0"
    /\ ticks = failTicks /\ i = 0 /\ Len(log) = 5

\* C14: the loop is left only after a fill has returned -1; as long as the
\* fills succeed the counter is 0 when the iteration ends and 1 at the loop
\* head, so the loop condition cannot fail.
C14_ExitOnlyAfterEnd ==
    /\ pc \in {"flush", "write", "done"} => (input = 0 - 1 /\ failPort # "none")
    /\ (input = 0 /\ pc = "incr") => i = 0
    /\ (input = 0 /\ pc = "for") => (i <= 1 /\ LoopCond)
C14_Witness ==
    /\ pc = "done" /\ input = 0 - 1
    /\ Len(log) = 4 /\ failPort = "x0" /\ failTicks = 2

\* C15: when the loop exits, exactly 256 full ticks have been executed counted
\* from, and including, the tick of the last iteration whose X0 fill
\* succeeded, or 256 in all when no X0 fill succeeded; n >= 1 complete pairs
\* followed by a malformed byte give n + 255.
LastX0 == IF Len(log) % 2 = 1 THEN Len(log) ELSE Len(log) - 1
C15_BudgetAfterLastRead ==
    pc = "done" =>
        /\ Len(log) = 0 => ticks = Budget
        /\ Len(log) > 0 => (log[LastX0].port = "x0" /\ ticks = log[LastX0].tick + Budget)
        /\ CompletePairs => ticks = NPairs + 255
        /\ i = Budget
C15_Witness ==
    /\ pc = "done"
    /\ Len(log) = 5 /\ log[5].tick = 2
    /\ ticks = 258

\* C16: every iteration entered, whatever the status of its fills, executes
\* one full tick: a half-tick that sets the external clock to 0, then one
\* that sets it to 1; so the level set by the k-th half-tick of the run is
\* (k - 1) mod 2.
C16_OneTickPerIteration ==
    /\ halfticks > 0 =>
          /\ clk = (halfticks - 1) % 2
          /\ ops[1].op = "clk" /\ ops[1].clk = (halfticks - 1) % 2
    /\ pc \in {"args", "for", "flush", "write", "done"} =>
          (ticks = iters /\ halfticks = 2 * ticks)
    /\ pc \in {"x0", "x1", "sample0", "clock0"} =>
          (ticks = iters - 1 /\ halfticks = 2 * ticks)
    /\ pc \in {"sample1", "clock1"} =>
          (ticks = iters - 1 /\ halfticks = 2 * ticks + 1 /\ clk = 0)
    /\ pc = "incr" =>
          (ticks = iters /\ halfticks = 2 * ticks /\ clk = 1)
C16_Witness ==
    /\ pc = "incr" /\ failPort = "x1" /\ input = 0 - 1
    /\ iters = failTicks + 1 /\ ticks = iters
    /\ halfticks = 2 * iters /\ clk = 1

\* the statements of the last half-tick that are of the given kinds
OpsOf(kinds) == {k \in 1..Len(ops) : ops[k].op \in kinds}

\* C17, as stated: in every half-tick each assignment to a clock line is
\* followed by a DUT advance before the next assignment or the read of the
\* output ports.
C17_EveryAssignmentStepped ==
    \A k \in OpsOf({"clk", "tb_clk"}) : k < Len(ops) /\ ops[k + 1].op = "step"

\* C17, amended: in every half-tick the assignments external clock := L and
\* testbench-domain clock := 0 are each followed by a DUT advance before the
\* next assignment; the assignment testbench-domain clock := 1 is followed by
\* the read of the output ports with no DUT advance in between, so the
\* outputs read are those of an advance made with that clock at 0 (the
\* design is advanced with it at 1 only by the first advance of the next
\* half-tick).
C17_AssignmentsAndAdvances ==
    halfticks > 0 =>
        /\ [k \in 1..Len(ops) |-> ops[k].op]
              = <<"clk", "step", "tb_clk", "step", "tb_clk", "get">>
        /\ ops[1].clk = clk /\ ops[2].clk = clk
        /\ ops[2].tb = IF halfticks = 1 THEN 0 ELSE 1
        /\ ops[3].tb = 0 /\ ops[4].tb = 0
        /\ ops[5].tb = 1 /\ ops[6].tb = 1
        /\ \A k \in OpsOf({"get"}) :
              /\ ops[k - 1].op = "tb_clk"
              /\ \A m \in OpsOf({"step"}) : m < k => ops[m].tb = 0 \/ m = 2
C17_Witness ==
    /\ halfticks = 2 /\ pc = "incr"
    /\ ops[2] = [op |-> "step", clk |-> 1, tb |-> 1]
    /\ ops[4] = [op |-> "step", clk |-> 1, tb |-> 0]
    /\ ops[6] = [op |-> "get", clk |-> 1, tb |-> 1]

\* C18: every half-tick advances the design exactly twice, once with the
\* external clock at L before the testbench-domain clock is forced to 0 and
\* once with that clock at 0; so the number of advances is twice the number
\* of half-ticks done, and the testbench-domain clock is 1 at the read of the
\* outputs and when the half-tick ends.
C18_TwoAdvancesPerHalfTick ==
    /\ nsteps = 2 * halfticks
    /\ halfticks > 0 =>
          /\ tb_clk = 1
          /\ Cardinality(OpsOf({"step"})) = 2
          /\ \E a, b \in OpsOf({"step"}), z \in OpsOf({"tb_clk"}) :
                /\ a < z /\ z < b
                /\ ops[a].clk = clk /\ ops[z].tb = 0 /\ ops[b].tb = 0
                /\ \A y \in OpsOf({"tb_clk"}) : z <= y
          /\ \A k \in OpsOf({"get"}) : ops[k].tb = 1 /\ k = Len(ops)
C18_Witness ==
    /\ halfticks = 3 /\ nsteps = 6 /\ pc = "sample1"
    /\ tb_clk = 1 /\ clk = 0 /\ OpsOf({"get"}) = {6}

\* C19: with capture enabled the index handed to a sample call is the number
\* of half-ticks done at that moment and the number of sample calls before
\* it, so the indices are 0, 1, 2, ... and one half-tick lies between two
\* consecutive sample calls.
C19_TraceInSync ==
    capture_vcd = 1 =>
        /\ j = nsamples
        /\ sampled = IF nsamples = 0 THEN << >> ELSE <<nsamples - 1>>
        /\ pc \in {"clock0", "clock1"} => (sampled = <<halfticks>> /\ nsamples = halfticks + 1)
        /\ pc \notin {"clock0", "clock1"} => nsamples = halfticks
C19_Witness ==
    /\ capture_vcd = 1 /\ pc = "clock1"
    /\ sampled = <<3>> /\ halfticks = 3 /\ j = 4

\* C10 (the port holds the value truncated to its width) is not stated: the
\* widths of p_x0 and p_x1 and value<Bits>::set are outside viterbi_cxxrtl_tb.cpp.

\* ------------------------------------------------------------ type check
TypeOK ==
    /\ pos \in 0..Len(stream)
    /\ input \in {0, 0 - 1}
    /\ i \in 0..Budget
    /\ capture_vcd \in {0, 1}
    /\ data \in DataValues /\ valid \in ValidValues
    /\ pc \in {"args", "for", "x0", "x1", "sample0", "clock0", "sample1", "clock1",
               "incr", "flush", "write", "done"}
====
